---------------------------- MODULE Spec2Model ----------------------------
(***************************************************************************)
(* A model of geopandas_view.view (src/geopandas_view/view.py): one call   *)
(* of view() is run as the sequence of its stages                          *)
(*                                                                         *)
(*   ViewStart -> ResolveColumn -> CategoricalColors ->                    *)
(*                      (Simple | Choropleth) -> Finish -> Return          *)
(*                                                                         *)
(* and a raise in any stage ends the call at once (pc = "done", err set).  *)
(*                                                                         *)
(* Representation.  A cell value is an integer: numbers stand for          *)
(* themselves, strings for their rank in sort order, NaN for a missing     *)
(* value.  A color is a triple <<name, n, i>>: Lit(c) = <<c, 0, 0>> is the *)
(* literal color c, <<p, n, i>> is entry i of the named palette p          *)
(* resampled to n entries (cm.get_cmap(p, n)(i) as a hex string).          *)
(***************************************************************************)
EXTENDS Integers, Sequences, FiniteSets, TLC

\* ------------------------------------------------------------- bounds
NRows == 3          \* rows of every table
MaxK == 3           \* class counts k are drawn from 1..MaxK
MaxCount == 2       \* integer tooltip/popup counts are drawn from 0..MaxCount

\* ---------------------------------------------------------- constants
NaN == -1           \* a missing cell (np.nan)
DefaultK == 5       \* view(..., k=5)

\* -------------------------------------------------------------- values
isna(v) == v = NaN

Lit(c) == <<c, 0, 0>>

Range(s) == {s[i] : i \in DOMAIN s}

SetMin(S) == CHOOSE x \in S : \A y \in S : x <= y

SetMax(S) == CHOOSE x \in S : \A y \in S : x >= y

RECURSIVE SortedSeq(_)
SortedSeq(S) == IF S = {} THEN <<>> ELSE <<SetMin(S)>> \o SortedSeq(S \ {SetMin(S)})

\* position of v in sequence s, counted from 0; -1 when absent
IndexOf(s, v) == IF v \in Range(s) THEN (CHOOSE i \in DOMAIN s : s[i] = v) - 1 ELSE -1

RECURSIVE Repeat(_, _)
Repeat(s, n) == IF n <= 0 THEN <<>> ELSE s \o Repeat(s, n - 1)

RECURSIVE Without(_, _)
\* list.remove(x): the list without its first occurrence of x
Without(s, x) ==
    IF s = <<>> THEN <<>>
    ELSE IF Head(s) = x THEN Tail(s) ELSE <<Head(s)>> \o Without(Tail(s), x)

Rows == 1..NRows

\* ------------------------------------------------------------- tables
ColorNames == <<"red", "green", "blue", "gold", "pink">>

DefaultIndex == [i \in Rows |-> i - 1]

ShuffledIndex == [i \in Rows |-> IF i = NRows THEN 0 ELSE i]

\* the table the caller passes: column order, per-column values and dtype, the
\* declared categories of the categorical-dtype column, index labels and crs
BaseTable ==
    [frame |-> TRUE,
     crs   |-> "4326",
     index |-> DefaultIndex,
     cols  |-> <<"pop", "name", "kind", "colors", "geometry">>,
     dtype |-> [pop |-> "num", name |-> "obj", kind |-> "cat",
                colors |-> "obj", geometry |-> "geom"],
     cats  |-> <<3, 1, 2>>,
     data  |-> [pop      |-> [i \in Rows |-> 2 * i],
                name     |-> [i \in Rows |-> IF i = 1 THEN 2 ELSE 1],
                kind     |-> [i \in Rows |-> IF i = 1 THEN 3 ELSE 1],
                colors   |-> [i \in Rows |-> Lit(ColorNames[i])],
                geometry |-> [i \in Rows |-> 10 + i]]]

NumVecs == [Rows -> {NaN, 2, 4}]

StrVecs == [Rows -> {NaN, 1, 2}]

WithData(t, c, v) == [t EXCEPT !.data[c] = v]

\* a GeoSeries: geometries only
GeoSeries ==
    [frame |-> FALSE,
     crs   |-> "4326",
     index |-> DefaultIndex,
     cols  |-> <<"geometry">>,
     dtype |-> [geometry |-> "geom"],
     cats  |-> <<>>,
     data  |-> [geometry |-> [i \in Rows |-> 10 + i]]]

shape0(t) == Len(t.index)

HasColumn(t, c) == c \in Range(t.cols)

\* gdf.to_crs(4326): every geometry is reprojected
to_crs(t) == [t EXCEPT !.crs = "4326",
                       !.data.geometry = [i \in DOMAIN @ |-> @[i] + 100]]

\* gdf[c] = vec: a new column goes last, an existing one is overwritten in place
SetColumn(t, c, vec, dt) ==
    IF HasColumn(t, c)
    THEN [t EXCEPT !.data = [x \in DOMAIN @ |-> IF x = c THEN vec ELSE @[x]],
                   !.dtype = [x \in DOMAIN @ |-> IF x = c THEN dt ELSE @[x]]]
    ELSE [t EXCEPT !.cols = Append(@, c),
                   !.data = (c :> vec) @@ @,
                   !.dtype = (c :> dt) @@ @]

\* ---------------------------------------------------------- arguments
\* column: None, a column name, an np.ndarray, or a pd.Series with its own index
NoColumn == [form |-> "none", name |-> "", vals |-> <<>>, index |-> <<>>, dtype |-> "none"]

ByName(n) == [form |-> "name", name |-> n, vals |-> <<>>, index |-> <<>>, dtype |-> "none"]

ByArray(v, dt) == [form |-> "array", name |-> "", vals |-> v, index |-> <<>>, dtype |-> dt]

BySeries(v, ix, dt) == [form |-> "series", name |-> "", vals |-> v, index |-> ix, dtype |-> dt]

\* cmap: None, a string, a list of colors, or some other (truthy) object
NoCmap == [kind |-> "none", name |-> "", list |-> <<>>]

CmapName(n) == [kind |-> "str", name |-> n, list |-> <<>>]

CmapList(l) == [kind |-> "list", name |-> "", list |-> l]

CmapOther == [kind |-> "other", name |-> "", list |-> <<>>]

\* color: None, a string, or a list of colors
NoColor == [kind |-> "none", name |-> "", list |-> <<>>]

ColorStr(n) == [kind |-> "str", name |-> n, list |-> <<>>]

ColorList(l) == [kind |-> "list", name |-> "", list |-> l]

\* tooltip / popup: a bool, None, an int, a string or a list of strings
TipBool(b) == [kind |-> "bool", b |-> b, n |-> 0, fields |-> <<>>]

TipNone == [kind |-> "none", b |-> FALSE, n |-> 0, fields |-> <<>>]

TipInt(n) == [kind |-> "int", b |-> FALSE, n |-> n, fields |-> <<>>]

TipStr(f) == [kind |-> "str", b |-> FALSE, n |-> 0, fields |-> <<f>>]

TipList(l) == [kind |-> "list", b |-> FALSE, n |-> 0, fields |-> l]

\* vmin / vmax: None or a number
NoNum == [given |-> FALSE, v |-> 0]

Num(v) == [given |-> TRUE, v |-> v]

\* a dict of style keys; {} is the empty function
EmptyDict == [x \in {} |-> Lit("")]

\* classification_kwds as a dict: the only key the code reads or writes is "k"
NoK == [hasK |-> FALSE, k |-> 0]

WithK(k) == [hasK |-> TRUE, k |-> k]

\* plt.colormaps(): the names matplotlib knows
Colormaps == {"tab20", "Set1", "viridis"}

A == Lit("#333432")

B == Lit("#3b6e8c")

C == Lit("#bc5b4f")

DefaultArgs ==
    [df            |-> BaseTable,
     column        |-> NoColumn,
     cmap          |-> NoCmap,
     color         |-> NoColor,
     useMap        |-> FALSE,
     tooltip       |-> TipBool(FALSE),
     popup         |-> TipBool(FALSE),
     categorical   |-> FALSE,
     legend        |-> FALSE,
     scheme        |-> "none",
     k             |-> DefaultK,
     vmin          |-> NoNum,
     vmax          |-> NoNum,
     categories    |-> <<>>,
     ckw           |-> "none",
     marker_type   |-> "none",
     style_kwds    |-> EmptyDict]

\* ------------------------------------------------- view(): the column
None == "None"

\* mutant of RowCountDiffers: only a vector that is too long is refused
RowCountDiffers_OnlyLonger(col, t) == Len(col.vals) > shape0(t)

\* column.shape[0] != gdf.shape[0]
RowCountDiffers(col, t) == Len(col.vals) # shape0(t)

\* gdf["__plottable_column"] = column: an array is stored by position, a Series
\* is aligned on its index labels (a label the Series lacks gives NaN)
Aligned(col, t) ==
    IF col.form = "series"
    THEN [i \in 1..shape0(t) |->
             IF t.index[i] \in Range(col.index)
             THEN col.vals[IndexOf(col.index, t.index[i]) + 1]
             ELSE NaN]
    ELSE col.vals

is_categorical_dtype(t, c) == t.dtype[c] = "cat"

is_object_dtype(t, c) == t.dtype[c] = "obj"

\* ------------------------------------------- view(): categorical colors
NotNa(vec) == {vec[i] : i \in DOMAIN vec} \ {NaN}

\* the distinct non-missing values of vec in the order of their first occurrence
FirstSeen(vec) ==
    LET first == {i \in DOMAIN vec : ~isna(vec[i]) /\ \A j \in 1..(i - 1) : vec[j] # vec[i]}
        at == SortedSeq(first)
    IN  [j \in 1..Len(at) |-> vec[at[j]]]

\* mutant of Categories: the values of a plain column are kept in first-seen order
Categories_FirstSeen(t, c) ==
    IF is_categorical_dtype(t, c) THEN t.cats ELSE FirstSeen(t.data[c])

\* pd.Categorical(values).categories: the declared categories of a categorical
\* dtype, else the distinct non-missing values in sort order
Categories(t, c) ==
    IF is_categorical_dtype(t, c) THEN t.cats ELSE SortedSeq(NotNa(t.data[c]))

\* pd.Categorical(values).codes: the 0-based category index, -1 for a missing value
Codes(t, c) == [i \in DOMAIN t.data[c] |-> IndexOf(Categories(t, c), t.data[c][i])]

\* bool(cmap)
Truthy(cm) ==
    \/ cm.kind = "other"
    \/ cm.kind = "str" /\ cm.name # ""
    \/ cm.kind = "list" /\ cm.list # <<>>

\* cmap if cmap else "tab20"
OrTab20(cm) == IF Truthy(cm) THEN cm ELSE CmapName("tab20")

\* mutant of InColormaps: every string passes for a palette name
InColormaps_AnyString(cm) == cm.kind = "str"

\* cmap in plt.colormaps()
InColormaps(cm) == cm.kind = "str" /\ cm.name \in Colormaps

is_list_like(cm) == cm.kind = "list"

\* mutant of Tile: a short list is padded with its last color
Tile_PadLast(l, N) == IF N > Len(l) THEN l \o [j \in 1..(N - Len(l)) |-> l[Len(l)]] ELSE l

\* if N > len(cmap): cmap = cmap * (N // len(cmap) + 1)
Tile(l, N) == IF N > Len(l) THEN Repeat(l, N \div Len(l) + 1) ELSE l

\* np.take(a, i) for one index: a negative index counts from the end
take(l, i) == IF i < 0 THEN l[Len(l) + i + 1] ELSE l[i + 1]

\* colors.to_hex(cm.get_cmap(name, N)(i)): an index below 0 gives the palette's
\* first entry, one above N - 1 its last
Sampled(name, N, i) == <<name, N, IF i < 0 THEN 0 ELSE IF i > N - 1 THEN N - 1 ELSE i>>

\* the per-row colors and the legend colors of the named-palette branch
NamedColor(name, N, codes) == [i \in DOMAIN codes |-> Sampled(name, N, codes[i])]

NamedLegend(name, N) == [j \in 1..N |-> Sampled(name, N, j - 1)]

\* the per-row colors and the legend colors of the list branch
ListColor(l, N, codes) == [i \in DOMAIN codes |-> take(Tile(l, N), codes[i])]

\* mutant of ListLegend: the whole (tiled) list, not its first N entries
ListLegend_WholeList(l, N) == Tile(l, N)

ListLegend(l, N) == [j \in 1..N |-> take(Tile(l, N), j - 1)]

\* ------------------------------------------------------ _tooltip_popup
NoTip == [some |-> FALSE, fields |-> <<>>]

\* fields is False or fields is None or fields == 0
IsOff(f) ==
    \/ f.kind = "bool" /\ ~f.b
    \/ f.kind = "none"
    \/ f.kind = "int" /\ f.n = 0

\* gdf.columns.drop(gdf.geometry.name).to_list()
NonGeometry(t) == SelectSeq(t.cols, LAMBDA c : c # "geometry")

\* mutant of FirstN: the slice takes one column too many
FirstN_OneMore(s, n) == SubSeq(s, 1, IF n + 1 < Len(s) THEN n + 1 ELSE Len(s))

\* [:fields]
FirstN(s, n) == SubSeq(s, 1, IF n < Len(s) THEN n ELSE Len(s))

RequestedFields(f, t) ==
    IF f.kind = "bool" THEN NonGeometry(t)
    ELSE IF f.kind = "int" THEN FirstN(NonGeometry(t), f.n)
    ELSE f.fields

\* mutant of DropInternal: only one of the two internal names is removed
DropInternal_KeyOnly(fields) == Without(fields, "__folium_key")

\* the two fields.remove(...) calls
DropInternal(fields) == Without(Without(fields, "__folium_key"), "__plottable_column")

\* _tooltip_popup(type, fields, gdf): None, or the element with its field list
tooltip_popup(f, t) ==
    IF IsOff(f) THEN NoTip
    ELSE [some |-> TRUE, fields |-> DropInternal(RequestedFields(f, t))]

\* ------------------------------------------------------- _choropleth
\* gdf[column].min(): missing values are skipped; NaN when nothing is left
ObservedMin(vec) == IF NotNa(vec) = {} THEN NaN ELSE SetMin(NotNa(vec))

ObservedMax(vec) == IF NotNa(vec) = {} THEN NaN ELSE SetMax(NotNa(vec))

\* np.asarray(gdf[column]): what is handed to mapclassify.classify
ClassifierInput(t, c) == t.data[c]

StrictlyIncreasing(s) == \A i \in 1..(Len(s) - 1) : s[i] < s[i + 1]

\* mapclassify.classify(values, scheme, k=k).bins: the library is not part of the
\* repository, so its result is any sequence of k increasing upper edges that
\* covers the data: the last edge is the largest value, the first is not below
\* the smallest.  (Edges are drawn from the integers of that range.)
ClassifierBins(vec, k) ==
    IF NotNa(vec) = {} THEN {}
    ELSE {e \in [1..k -> ObservedMin(vec)..ObservedMax(vec)] :
             StrictlyIncreasing(e) /\ e[k] = ObservedMax(vec)}

\* bins = binning.bins.tolist(); bins.insert(0, gdf[column].min())
WithMinimum(t, c, edges) == <<ObservedMin(t.data[c])>> \o edges

\* the bins argument of folium.Choropleth: a class count, or a list of edges
BinCount(n) == [kind |-> "count", n |-> n, edges |-> <<>>]

BinEdges(e) == [kind |-> "edges", n |-> Len(e) - 1, edges |-> e]

NoBins == [kind |-> "none", n |-> 0, edges |-> <<>>]

\* ------------------------------------------------------------ the map
Layer(type, tt, pp, marker, styles, bins) ==
    [type |-> type, tooltip |-> tt, popup |-> pp, marker |-> marker,
     styles |-> styles, bins |-> bins]

\* folium.Map(location=..., tiles=tiles, crs=crs, ...)
NewMap(tiles, crs) ==
    [tiles |-> tiles, crs |-> crs, layers |-> <<>>, fitted |-> FALSE, legend |-> <<>>]

\* a map the caller drew on before and passes as m
ExistingMap ==
    [tiles |-> "CartoDB positron", crs |-> "EPSG3857",
     layers |-> <<Layer("GeoJson", NoTip, NoTip, "none", <<>>, NoBins)>>,
     fitted |-> TRUE, legend |-> <<>>]

NoMap == NewMap("", "")

\* mutant of AddedTo: the layer is put on the map before the checks have run
AddedTo_Unchecked(mp, layer, e) == [mp EXCEPT !.layers = Append(@, layer)]

\* .add_to(m) is the last statement of _simple and of _choropleth: the layer is
\* on the map only when nothing before it raised (e is the exception, or "none")
AddedTo(mp, layer, e) ==
    IF e # "none" THEN mp ELSE [mp EXCEPT !.layers = Append(@, layer)]

\* {"color": c, **style_kwds}: a key of style_kwds replaces the computed one
StyleWithColor(c, kw) ==
    [key \in {"color"} \cup DOMAIN kw |-> IF key \in DOMAIN kw THEN kw[key] ELSE c]

MarkerStrings == {"marker", "circle", "circle_marker"}

\* marker_type is a string that names no supported marker
BadMarker(mt) == mt \notin (MarkerStrings \cup {"none", "object"})

\* zip(categories, colors) of _categorical_legend
LegendEntries(categories, lcolors) ==
    [j \in 1..(IF Len(categories) < Len(lcolors) THEN Len(categories) ELSE Len(lcolors))
        |-> <<categories[j], lcolors[j]>>]

\* ------------------------------------------------------------- inputs
\* The calls the model makes.  Each family varies the arguments that one part
\* of view() reads and leaves the others at their defaults.
BasePop == BaseTable.data.pop

BaseName == BaseTable.data.name

ShortVec == [i \in 1..(NRows - 1) |-> 2]

LongVec == [i \in 1..(NRows + 1) |-> 2]

ColumnForms ==
    {NoColumn, ByName("pop"), ByName("name"), ByName("kind"), ByName("nope"),
     ByArray(BasePop, "num"), ByArray(BaseName, "obj"),
     ByArray(ShortVec, "num"), ByArray(LongVec, "obj"),
     BySeries(BasePop, DefaultIndex, "num"), BySeries(BasePop, ShuffledIndex, "num"),
     BySeries(ShortVec, [i \in 1..(NRows - 1) |-> i - 1], "num")}

Cmaps ==
    {NoCmap, CmapName("Set1"), CmapName(""), CmapName("nonsense"), CmapOther,
     CmapList(<<>>), CmapList(<<A>>), CmapList(<<A, B>>), CmapList(<<A, B, C>>)}

Tips ==
    {TipBool(FALSE), TipBool(TRUE), TipNone, TipStr("pop"),
     TipList(<<"name", "pop">>), TipList(<<"pop", "__folium_key">>)}
        \cup {TipInt(n) : n \in 0..MaxCount} \cup {TipInt(Len(BaseTable.cols) + 1)}

Markers == {"none", "object", "marker", "circle", "circle_marker", "dummy"}

Styles == {EmptyDict, [color |-> Lit("black")], [fillColor |-> Lit("orange")]}

Colors ==
    {NoColor, ColorStr("red"), ColorStr("colors"),
     ColorList([i \in Rows |-> Lit(ColorNames[NRows + 1 - i])]),
     ColorList(<<Lit("red")>>)}

Tables ==
    {BaseTable, [BaseTable EXCEPT !.index = ShuffledIndex],
     [BaseTable EXCEPT !.crs = "none"], [BaseTable EXCEPT !.crs = "27700"]}

ModeInputs ==
    {[DefaultArgs EXCEPT !.column = c, !.categorical = g, !.scheme = s, !.k = 2,
                         !.useMap = u, !.cmap = cm, !.categories = cs] :
        c \in ColumnForms, g \in BOOLEAN, s \in {"none", "quantiles"},
        u \in BOOLEAN, cm \in {NoCmap, CmapName("nonsense"), CmapList(<<A, B>>)},
        cs \in {<<>>, <<2, 1>>}}

PaletteInputs ==
    {[DefaultArgs EXCEPT !.df = WithData(BaseTable, "name", v), !.column = ByName("name"),
                         !.cmap = cm, !.legend = l] :
        v \in StrVecs, cm \in Cmaps, l \in BOOLEAN}
    \cup
    {[DefaultArgs EXCEPT !.df = WithData(BaseTable, "kind", v), !.column = ByName("kind"),
                         !.cmap = cm, !.legend = TRUE] :
        v \in StrVecs, cm \in {NoCmap, CmapName("nonsense"), CmapList(<<A>>),
                                CmapList(<<A, B>>), CmapList(<<A, B, C>>)}}
    \cup
    {[DefaultArgs EXCEPT !.column = col, !.categorical = TRUE, !.cmap = cm, !.legend = TRUE] :
        col \in {ByArray(v, "obj") : v \in StrVecs} \cup {ByName("pop")},
        cm \in {NoCmap, CmapList(<<A, B>>)}}

ChoroplethInputs ==
    {[DefaultArgs EXCEPT !.df = WithData(BaseTable, "pop", v), !.column = ByName("pop"),
                         !.scheme = s, !.k = k, !.ckw = w] :
        v \in NumVecs, s \in {"none", "quantiles"}, k \in 1..MaxK, w \in {"none", "own"}}
    \cup
    {[DefaultArgs EXCEPT !.column = ByName("pop"), !.scheme = s, !.k = 2,
                         !.vmin = lo, !.vmax = hi] :
        s \in {"none", "quantiles"}, lo \in {NoNum, Num(0), Num(100)},
        hi \in {NoNum, Num(0), Num(100)}}

TipInputs ==
    {[DefaultArgs EXCEPT !.df = t, !.column = c[1], !.categorical = c[2],
                         !.tooltip = tt, !.popup = pp] :
        t \in {BaseTable},
        c \in {<<NoColumn, FALSE>>, <<ByName("pop"), FALSE>>, <<ByName("name"), FALSE>>,
               <<ByArray(BasePop, "num"), FALSE>>, <<ByArray(BasePop, "num"), TRUE>>},
        tt \in Tips, pp \in {TipBool(FALSE), TipBool(TRUE), TipNone, TipInt(1)}}

SimpleInputs ==
    {[DefaultArgs EXCEPT !.df = t, !.column = c, !.color = co, !.style_kwds = sk,
                         !.marker_type = mt] :
        t \in Tables, c \in {NoColumn, ByName("name"), ByName("pop")},
        co \in Colors, sk \in Styles, mt \in {"none", "dummy"}}
    \cup
    {[DefaultArgs EXCEPT !.df = GeoSeries, !.color = co, !.tooltip = tt, !.style_kwds = sk] :
        co \in Colors, tt \in Tips, sk \in Styles}
    \cup
    {[DefaultArgs EXCEPT !.column = c, !.marker_type = mt, !.useMap = u] :
        c \in {NoColumn, ByName("name"), ByName("pop")}, mt \in Markers, u \in BOOLEAN}

Inputs == ModeInputs \cup PaletteInputs \cup ChoroplethInputs \cup TipInputs \cup SimpleInputs

DictValues == {NoK} \cup {WithK(k) : k \in 1..MaxK}

\* -------------------------------------------------------------- state
VARIABLES
    pc,             \* the stage the running call is at; "idle" between calls
    args,           \* the arguments of the running call
    df,             \* the caller's table
    gdf,            \* view()'s working table
    m,              \* the map drawn on
    cdict,          \* the caller's classification_kwds dict, kept across calls
    column,         \* local: None, or the name of the plotted column
    categorical,    \* local
    cmap,           \* local
    color,          \* local: the color argument, or the computed per-row colors
    cat,            \* local: pd.Categorical(gdf[column]) as categories and codes
    legend_colors,  \* local
    tooltip,        \* the tooltip element built (NoTip: none)
    popup,          \* the popup element built
    bins,           \* the bins handed to folium.Choropleth
    classified,     \* the values handed to mapclassify.classify
    kwds_k,         \* the k handed to mapclassify.classify (0: not called)
    warned,         \* the warnings emitted
    err             \* "none", or the exception the call raised

vars == <<pc, args, df, gdf, m, cdict, column, categorical, cmap, color, cat,
          legend_colors, tooltip, popup, bins, classified, kwds_k, warned, err>>

locals == <<column, categorical, cmap, color, cat, legend_colors>>

outputs == <<tooltip, popup, bins, classified, kwds_k, warned>>

NoCat == [categories |-> <<>>, codes |-> <<>>]

Array == "<values>"

Init ==
    /\ pc = "idle"
    /\ args = DefaultArgs
    /\ df = BaseTable
    /\ gdf = BaseTable
    /\ m = NoMap
    /\ cdict \in DictValues
    /\ column = None
    /\ categorical = FALSE
    /\ cmap = NoCmap
    /\ color = NoColor
    /\ cat = NoCat
    /\ legend_colors = <<>>
    /\ tooltip = NoTip
    /\ popup = NoTip
    /\ bins = NoBins
    /\ classified = <<>>
    /\ kwds_k = 0
    /\ warned = {}
    /\ err = "none"

\* mutant of CallerSees: view() works on the caller's table itself
CallerSees_NoCopy(d, g) == g

\* gdf = df.copy(): the caller's table d once the working copy has become g
CallerSees(d, g) == d

\* raise: the call ends here and nothing later in it runs
Raise(e) == pc' = "done" /\ err' = e

\* gdf = df.copy(), the crs branch, and the folium.Map
ViewStart(a) ==
    /\ pc = "idle"
    /\ pc' = "column"
    /\ args' = a
    /\ df' = a.df
    /\ gdf' = IF a.df.crs # "none" /\ a.df.crs # "4326" THEN to_crs(a.df) ELSE a.df
    /\ m' = IF a.useMap THEN ExistingMap
            ELSE IF a.df.crs = "none" THEN NewMap("none", "Simple")
            ELSE NewMap("OpenStreetMap", "EPSG3857")
    /\ column' = IF a.column.form = "none" THEN None
                 ELSE IF a.column.form = "name" THEN a.column.name ELSE Array
    /\ categorical' = a.categorical
    /\ cmap' = a.cmap
    /\ color' = a.color
    /\ UNCHANGED <<cdict, cat, legend_colors, outputs, err>>

\* if column is not None: ... (the array/Series branch and the two dtype branches)
ResolveColumn ==
    /\ pc = "column"
    /\ UNCHANGED <<args, m, cdict, cmap, color, cat, legend_colors, outputs>>
    /\ IF args.column.form = "none"
       THEN pc' = "colors" /\ UNCHANGED <<gdf, column, categorical, err>>
       ELSE IF args.column.form \in {"array", "series"}
       THEN IF RowCountDiffers(args.column, gdf)
            THEN Raise("rows") /\ UNCHANGED <<gdf, column, categorical>>
            ELSE /\ gdf' = SetColumn(gdf, "__plottable_column",
                                     Aligned(args.column, gdf), args.column.dtype)
                 /\ column' = "__plottable_column"
                 /\ pc' = "colors"
                 /\ UNCHANGED <<categorical, err>>
       ELSE IF ~HasColumn(gdf, column)
            THEN Raise("KeyError") /\ UNCHANGED <<gdf, column, categorical>>
            ELSE /\ categorical' = (categorical \/ is_categorical_dtype(gdf, column)
                                                \/ is_object_dtype(gdf, column))
                 /\ pc' = "colors"
                 /\ UNCHANGED <<gdf, column, err>>
    /\ df' = CallerSees(df, gdf')

\* if categorical: ... (the palette: named, list-like, or invalid)
CategoricalColors ==
    /\ pc = "colors"
    /\ UNCHANGED <<args, df, gdf, m, cdict, column, categorical, outputs>>
    /\ IF ~categorical
       THEN pc' = "plot" /\ UNCHANGED <<cmap, color, cat, legend_colors, err>>
       ELSE IF column = None
       THEN Raise("KeyError") /\ UNCHANGED <<cmap, color, cat, legend_colors>>
       ELSE LET categories == Categories(gdf, column)
                codes == Codes(gdf, column)
                N == Len(categories)
                cm == OrTab20(cmap)
            IN  /\ cat' = [categories |-> categories, codes |-> codes]
                /\ IF InColormaps(cm)
                   THEN IF N = 0
                        THEN \* np.apply_along_axis over an empty range(N)
                             /\ Raise("ValueError")
                             /\ cmap' = cm
                             /\ color' = ColorList(NamedColor(cm.name, N, codes))
                             /\ UNCHANGED legend_colors
                        ELSE /\ cmap' = cm
                             /\ color' = ColorList(NamedColor(cm.name, N, codes))
                             /\ legend_colors' = NamedLegend(cm.name, N)
                             /\ pc' = "plot"
                             /\ UNCHANGED err
                   ELSE IF is_list_like(cm)
                   THEN /\ cmap' = CmapList(Tile(cm.list, N))
                        /\ color' = ColorList(ListColor(cm.list, N, codes))
                        /\ legend_colors' = ListLegend(cm.list, N)
                        /\ pc' = "plot"
                        /\ UNCHANGED err
                   ELSE /\ Raise("cmap")
                        /\ cmap' = cm
                        /\ UNCHANGED <<color, legend_colors>>

\* the style_function of _simple, applied to every row
SimpleStyles(t, co, kw) ==
    IF co.kind = "none" THEN [i \in 1..shape0(t) |-> kw]
    ELSE IF co.kind = "str" /\ t.frame /\ HasColumn(t, co.name)
    THEN [i \in 1..shape0(t) |-> StyleWithColor(t.data[co.name][i], kw)]
    ELSE [i \in 1..shape0(t) |-> StyleWithColor(t.data["__folium_color"][i], kw)]

\* mutant of FoliumColor: a list is looked up by index label, not by position
FoliumColor_ByLabel(t, co) ==
    IF co.kind = "str" THEN [i \in 1..shape0(t) |-> Lit(co.name)]
    ELSE [i \in 1..shape0(t) |-> co.list[t.index[i] + 1]]

\* gdf["__folium_color"] = color: a string is broadcast, a list is stored by position
FoliumColor(t, co) == IF co.kind = "str" THEN [i \in 1..shape0(t) |-> Lit(co.name)] ELSE co.list

\* the table _simple works on once the color is settled
SimpleTable(t, co) ==
    IF co.kind = "none" \/ (co.kind = "str" /\ t.frame /\ HasColumn(t, co.name))
    THEN t
    ELSE SetColumn([t EXCEPT !.frame = TRUE], "__folium_color", FoliumColor(t, co), "obj")

\* a list of colors whose length is not the row count cannot be stored as a column
ColorLengthError(t, co) == co.kind = "list" /\ Len(co.list) # shape0(t)

\* _simple(m, gdf, color=color, ...)
Simple ==
    /\ pc = "plot"
    /\ column = None \/ categorical
    /\ UNCHANGED <<args, cdict, locals, bins, classified, kwds_k, warned>>
    /\ tooltip' = IF gdf.frame THEN tooltip_popup(args.tooltip, gdf) ELSE NoTip
    /\ popup' = IF gdf.frame THEN tooltip_popup(args.popup, gdf) ELSE NoTip
    /\ IF ColorLengthError(gdf, color)
       THEN Raise("ValueError") /\ UNCHANGED <<gdf, m>>
       ELSE /\ gdf' = SimpleTable(gdf, color)
            /\ LET e == IF BadMarker(args.marker_type) THEN "marker" ELSE "none"
               IN  /\ m' = AddedTo(m, Layer("GeoJson", tooltip', popup', args.marker_type,
                                            SimpleStyles(gdf', color, args.style_kwds),
                                            NoBins), e)
                   /\ IF e # "none" THEN Raise(e) ELSE pc' = "finish" /\ UNCHANGED err
    /\ df' = CallerSees(df, gdf')

\* _CB_PALETTES: the color-brewer names folium.Choropleth takes as fill_color
CB_PALETTES ==
    {"BuGn", "BuPu", "GnBu", "OrRd", "PuBu", "PuBuGn", "PuRd", "RdPu", "YlGn",
     "YlGnBu", "YlOrBr", "YlOrRd"}

\* fill_color=cmap: None (folium's default palette) or a color-brewer name
FillPaletteOk(cm) == cm.kind = "none" \/ (cm.kind = "str" /\ cm.name \in CB_PALETTES)

FillPalette(cm) == IF cm.kind = "str" THEN cm.name ELSE "Blues"

\* classification_kwds inside _choropleth once "k" is filled in
KwdsWithK(ck, k) == IF ck.hasK THEN ck ELSE WithK(k)

\* the bins _choropleth can hand to folium.Choropleth (NoBins: it raised before)
ChoroplethBins(t, c, scheme, kk, k) ==
    IF scheme = "none" THEN {BinCount(k)}
    ELSE IF t.dtype[c] # "num" \/ ClassifierBins(t.data[c], kk) = {} THEN {NoBins}
    ELSE {BinEdges(WithMinimum(t, c, e)) : e \in ClassifierBins(t.data[c], kk)}

\* how many bin edges lie below v (branca's StepColormap over np.histogram's edges)
EdgesBelow(v, b, lo, hi) ==
    IF b.kind = "edges" THEN Cardinality({j \in DOMAIN b.edges : b.edges[j] < v})
    ELSE IF hi = lo THEN Cardinality({j \in 0..b.n : 2 * j < b.n})
    ELSE Cardinality({j \in 0..b.n : j * (hi - lo) < (v - lo) * b.n})

Clip(i, lo, hi) == IF i < lo THEN lo ELSE IF i > hi THEN hi ELSE i

\* the style folium.Choropleth gives every row: the fill color of the row's bin
\* (nan_fill_color for a missing value) and the default line color
ChoroplethStyles(t, c, b, cm) ==
    [i \in 1..shape0(t) |->
        [fillColor |-> IF isna(t.data[c][i]) THEN Lit("black")
                       ELSE <<FillPalette(cm), b.n,
                              Clip(EdgesBelow(t.data[c][i], b, ObservedMin(t.data[c]),
                                              ObservedMax(t.data[c])) - 1, 0, b.n - 1)>>,
         color |-> Lit("black")]]

\* the first exception _choropleth runs into, "none" when it completes
ChoroplethError(t, c, scheme, kk, cm, tt, pp) ==
    IF scheme # "none" /\ t.dtype[c] # "num" THEN "TypeError"
    ELSE IF scheme # "none" /\ ClassifierBins(t.data[c], kk) = {} THEN "classify"
    ELSE IF t.dtype[c] # "num" THEN "TypeError"
    ELSE IF ~FillPaletteOk(cm) THEN "ValueError"
    ELSE IF tt # TipBool(FALSE) /\ IsOff(tt) THEN "AttributeError"
    ELSE IF pp # TipBool(FALSE) /\ IsOff(pp) THEN "AttributeError"
    ELSE "none"

\* _choropleth(m, gdf, column=column, cmap=cmap, bins=k, scheme=scheme, ...)
Choropleth ==
    /\ pc = "plot"
    /\ ~(column = None \/ categorical)
    /\ UNCHANGED <<args, locals, warned>>
    /\ LET t == SetColumn(gdf, "__folium_key", [i \in 1..shape0(gdf) |-> i - 1], "num")
           ck == IF args.ckw = "own" THEN cdict ELSE NoK
           kk == KwdsWithK(ck, args.k).k
           e == ChoroplethError(t, column, args.scheme, kk, cmap, args.tooltip, args.popup)
       IN  /\ gdf' = t
           /\ cdict' = IF args.scheme # "none" /\ args.ckw = "own"
                       THEN KwdsWithK(ck, args.k) ELSE cdict
           /\ classified' = IF args.scheme # "none" THEN ClassifierInput(t, column) ELSE <<>>
           /\ kwds_k' = IF args.scheme # "none" THEN kk ELSE 0
           /\ \E b \in ChoroplethBins(t, column, args.scheme, kk, args.k) :
                 /\ bins' = b
                 /\ tooltip' = IF e = "none" /\ args.tooltip # TipBool(FALSE)
                               THEN tooltip_popup(args.tooltip, t) ELSE NoTip
                 /\ popup' = IF e = "none" /\ args.popup # TipBool(FALSE)
                             THEN tooltip_popup(args.popup, t) ELSE NoTip
                 /\ m' = AddedTo(m, Layer("Choropleth", tooltip', popup', "none",
                                           ChoroplethStyles(t, column, b, cmap), b), e)
                 /\ IF e # "none" THEN Raise(e) ELSE pc' = "finish" /\ UNCHANGED err
    /\ df' = CallerSees(df, gdf')

\* m.fit_bounds(...), the categorical legend, return m
Finish ==
    /\ pc = "finish"
    /\ pc' = "done"
    /\ m' = [m EXCEPT !.fitted = TRUE,
                      !.legend = IF categorical /\ args.legend
                                 THEN @ \o LegendEntries(cat.categories, legend_colors)
                                 ELSE @]
    /\ UNCHANGED <<args, df, gdf, cdict, locals, outputs, err>>

\* the caller has the map (or the exception); the call's frame is gone
Return ==
    /\ pc = "done"
    /\ pc' = "idle"
    /\ args' = DefaultArgs
    /\ df' = BaseTable
    /\ gdf' = BaseTable
    /\ m' = NoMap
    /\ column' = None
    /\ categorical' = FALSE
    /\ cmap' = NoCmap
    /\ color' = NoColor
    /\ cat' = NoCat
    /\ legend_colors' = <<>>
    /\ tooltip' = NoTip
    /\ popup' = NoTip
    /\ bins' = NoBins
    /\ classified' = <<>>
    /\ kwds_k' = 0
    /\ warned' = {}
    /\ err' = "none"
    /\ UNCHANGED cdict

Call == \E a \in Inputs : ViewStart(a)

Next ==
    \/ Call
    \/ ResolveColumn
    \/ CategoricalColors
    \/ Simple
    \/ Choropleth
    \/ Finish
    \/ Return

Spec == Init /\ [][Next]_vars

\* ------------------------------------------------------------- claims
LastLayer == m.layers[Len(m.layers)]

\* the layers of the map before the call drew on it
LayersAtStart == IF args.useMap THEN ExistingMap.layers ELSE <<>>

\* the column argument is a vector whose length is not the table's row count
VectorMismatch ==
    /\ args.column.form \in {"array", "series"}
    /\ Len(args.column.vals) # Len(args.df.index)

\* the call has left the column stage
PastColumn == pc \in {"colors", "plot", "finish", "done"}

\* C1: a column given as an array or a series whose length differs from the row
\* count makes view raise the row-count error, whatever the categorical flag, the
\* scheme or the map are; the vector is stored neither truncated nor padded, and
\* nothing is drawn.
C1_RowCountMismatchRaises ==
    (PastColumn /\ VectorMismatch) =>
        /\ pc = "done"
        /\ err = "rows"
        /\ ~HasColumn(gdf, "__plottable_column")
        /\ m.layers = LayersAtStart

C1_Witness ==
    /\ pc = "done"
    /\ err = "rows"
    /\ VectorMismatch
    /\ args.categorical
    /\ args.scheme # "none"
    /\ args.useMap

\* the values the call plots, read from the arguments alone
NonNumericArg(a) ==
    IF a.column.form = "name" THEN a.df.dtype[a.column.name] # "num"
    ELSE a.column.dtype # "num"

ExpectedMode(a) ==
    IF a.column.form = "none" THEN "uniform"
    ELSE IF a.categorical \/ NonNumericArg(a) \/ a.categories # <<>> THEN "categorical"
    ELSE "choropleth"

\* the mode view() is in when it dispatches to _simple or _choropleth
Mode ==
    IF column = None \/ categorical
    THEN (IF categorical THEN "categorical" ELSE "uniform")
    ELSE "choropleth"

UnknownColumn(a) == a.column.form = "name" /\ ~HasColumn(a.df, a.column.name)

\* C2: the rendering mode is a function of the inputs: uniform with no column
\* (whatever the categorical flag is); with a column, categorical exactly when
\* categorical is true, or the values are non-numeric, or a category ordering is
\* given, and choropleth otherwise; for a column by name and by array or series.
\* So every call whose column resolves gets to its dispatch, in that mode.
C2_ModeIsFunctionOfInputs ==
    /\ pc = "plot" => Mode = ExpectedMode(args)
    /\ (pc = "done" /\ err = "KeyError") => UnknownColumn(args)

\* the palette stage of a categorical call has run
ReachedPalette ==
    /\ pc \in {"plot", "finish", "done"}
    /\ categorical
    /\ column \notin {None, Array}
    /\ HasColumn(gdf, column)

\* the palette stage has run and has produced colors
Colored == ReachedPalette /\ err \notin {"cmap", "ValueError"}

ShortList == args.cmap.kind = "list" /\ 0 < Len(args.cmap.list) /\ Len(args.cmap.list) < Len(cat.categories)

Cyclic(l, i) == l[(i % Len(l)) + 1]

\* C3: in categorical mode an explicit color list L shorter than the category
\* count N does not make the call raise, and the category at index i gets
\* L[i mod len(L)], in the legend colors, in the per-row colors and in the drawn
\* style.  (The marker type is a supported one: an unsupported one raises the
\* error of C15, in any mode.)
C3_ShortListCycles ==
    (ReachedPalette /\ ShortList /\ ~BadMarker(args.marker_type)) =>
        /\ err = "none"
        /\ Len(legend_colors) = Len(cat.categories)
        /\ \A j \in 1..Len(cat.categories) : legend_colors[j] = Cyclic(args.cmap.list, j - 1)
        /\ \A r \in DOMAIN cat.codes :
              cat.codes[r] >= 0 => color.list[r] = Cyclic(args.cmap.list, cat.codes[r])
        /\ (pc \in {"finish", "done"} /\ "color" \notin DOMAIN args.style_kwds) =>
              \A r \in DOMAIN cat.codes :
                 cat.codes[r] >= 0 =>
                    LastLayer.styles[r]["color"] = Cyclic(args.cmap.list, cat.codes[r])

C3_Witness ==
    /\ pc = "done"
    /\ err = "none"
    /\ ReachedPalette
    /\ args.cmap = CmapList(<<A, B>>)
    /\ Len(cat.categories) = 3
    /\ \E r \in DOMAIN cat.codes : cat.codes[r] = 2 /\ LastLayer.styles[r]["color"] = A

\* the values of the plotted column
Plotted == gdf.data[column]

DeclaredCategorical == gdf.dtype[column] = "cat"

\* C4 as claimed: the number of color/legend entries is the number of distinct
\* non-missing values observed in the column, also for a column of a declared
\* categorical type.
C4_EntriesEqualObservedValues ==
    Colored =>
        /\ Len(legend_colors) = Cardinality(NotNa(Plotted))
        /\ (pc = "done" /\ err = "none" /\ args.legend /\ ~args.useMap) =>
              Len(m.legend) = Cardinality(NotNa(Plotted))

\* C4 amended: the number of color/legend entries is the number of categories of
\* the column: the distinct non-missing values of a plain column, and all the
\* declared categories, observed or not, of a column of a declared categorical type.
C4_EntriesEqualCategories ==
    Colored =>
        LET n == IF DeclaredCategorical THEN Len(args.df.cats)
                 ELSE Cardinality(NotNa(Plotted))
        IN  /\ Len(legend_colors) = n
            /\ (pc = "done" /\ err = "none" /\ args.legend /\ ~args.useMap) =>
                  Len(m.legend) = n

C4_Witness ==
    /\ Colored
    /\ pc = "done"
    /\ args.legend
    /\ DeclaredCategorical
    /\ args.cmap.kind = "list"
    /\ Cardinality(NotNa(Plotted)) < Len(m.legend)

\* the palette the caller asked for is a name matplotlib knows, or a list
RecognizedName(cm) == cm.kind = "str" /\ cm.name \in Colormaps

\* no row has been colored and nothing has been drawn
NothingDrawn ==
    /\ m.layers = LayersAtStart
    /\ m.legend = (IF args.useMap THEN ExistingMap.legend ELSE <<>>)
    /\ color = args.color
    /\ legend_colors = <<>>
    /\ ~HasColumn(gdf, "__folium_color")

\* C5 as claimed: in categorical mode the invalid-palette error is raised exactly
\* when the requested palette is neither a recognized palette name nor list-like,
\* and then no row has been colored and no layer added.
C5_InvalidPaletteIffUnrecognized ==
    ReachedPalette =>
        /\ (err = "cmap") <=>
              (args.cmap.kind # "none" /\ ~RecognizedName(args.cmap) /\ args.cmap.kind # "list")
        /\ err = "cmap" => (pc = "done" /\ NothingDrawn)

\* C5 amended: the invalid-palette error is raised exactly when the requested
\* palette is non-empty (not None, "" or an empty list, which select the default
\* palette tab20) and is neither a recognized palette name nor list-like; and
\* then no row has been colored and no layer added.
C5_InvalidPaletteIffNonEmptyUnrecognized ==
    ReachedPalette =>
        /\ (err = "cmap") <=>
              /\ args.cmap \notin {NoCmap, CmapName(""), CmapList(<<>>)}
              /\ ~RecognizedName(args.cmap)
              /\ args.cmap.kind # "list"
        /\ err = "cmap" => (pc = "done" /\ NothingDrawn)

C5_Witness ==
    /\ ReachedPalette
    /\ pc = "done"
    /\ err = "cmap"
    /\ args.cmap = CmapName("nonsense")
    /\ args.useMap
    /\ NothingDrawn

\* the color a row with a missing value is to get when the caller configures none
MissingColor == Lit("None")

\* C6: in categorical mode every row whose value is missing gets the reserved
\* missing-value color and never the palette color of a category; a row with a
\* value gets the palette color at its category's index.
C6_MissingRowsGetMissingColor ==
    Colored =>
        \A r \in DOMAIN Plotted :
            IF isna(Plotted[r])
            THEN color.list[r] = MissingColor /\ color.list[r] \notin Range(legend_colors)
            ELSE color.list[r] = legend_colors[cat.codes[r] + 1]

\* the call drew a choropleth and returned
ChoroplethDone ==
    /\ pc = "done"
    /\ err = "none"
    /\ Mode = "choropleth"
    /\ LastLayer.type = "Choropleth"

\* the lowest and the highest value the bins cover
LowerBound == IF bins.kind = "edges" THEN bins.edges[1] ELSE ObservedMin(Plotted)

UpperBound == IF bins.kind = "edges" THEN bins.edges[Len(bins.edges)] ELSE ObservedMax(Plotted)

\* C7: in choropleth mode a vmin above the observed minimum does not stop the
\* call: a warning is emitted and the lower bound used for binning is the
\* observed minimum; the same for a vmax below the observed maximum.
C7_RangeClampedWithWarning ==
    ChoroplethDone =>
        /\ (args.vmin.given /\ args.vmin.v > ObservedMin(Plotted)) =>
              ("vmin" \in warned /\ LowerBound = ObservedMin(Plotted))
        /\ (args.vmax.given /\ args.vmax.v < ObservedMax(Plotted)) =>
              ("vmax" \in warned /\ UpperBound = ObservedMax(Plotted))

\* C8: in choropleth mode with a named scheme and class count k, the bin edges
\* handed to the renderer are k+1, strictly increasing, and start at the
\* observed minimum of the column.
C8_EdgesIncreasingKPlusOne ==
    (pc \in {"finish", "done"} /\ Mode = "choropleth" /\ args.scheme # "none"
        /\ bins.kind = "edges") =>
        /\ Len(bins.edges) = args.k + 1
        /\ StrictlyIncreasing(bins.edges)
        /\ bins.edges[1] = ObservedMin(Plotted)

Internal == {"geometry", "__plottable_column", "__folium_key", "__folium_color"}

\* the field list of a tooltip or popup asked for with True or with a count
FieldsClean(asked, built) ==
    (built.some /\ asked.kind \in {"bool", "int"}) =>
        /\ Range(built.fields) \cap Internal = {}
        /\ asked.kind = "bool" => built.fields = NonGeometry(args.df)

\* C9: in every mode and for a column by name or by array/series, a tooltip or
\* popup asked for with True or with a count has a field list without the
\* geometry column and without the internal attributes; with True it is exactly
\* the caller table's non-geometry attribute names in column order.
C9_FieldsExcludeInternal ==
    pc \in {"finish", "done"} =>
        (FieldsClean(args.tooltip, tooltip) /\ FieldsClean(args.popup, popup))

C9_Witness ==
    /\ ChoroplethDone
    /\ column = "__plottable_column"
    /\ args.tooltip = TipBool(TRUE)
    /\ args.popup = TipInt(1)
    /\ LastLayer.tooltip.fields = <<"pop", "name", "kind", "colors">>
    /\ LastLayer.popup.fields = <<"pop">>

\* the call ran in uniform-color mode and has drawn its layer
UniformDrawn ==
    /\ pc \in {"finish", "done"}
    /\ err = "none"
    /\ args.column.form = "none"
    /\ ~args.categorical

NamesAttribute(a) == a.color.kind = "str" /\ a.df.frame /\ HasColumn(a.df, a.color.name)

\* the color of row i as the caller gave it
GivenColor(a, i) ==
    IF a.color.kind = "list" THEN a.color.list[i]
    ELSE IF NamesAttribute(a) THEN a.df.data[a.color.name][i]
    ELSE Lit(a.color.name)

VectorGiven ==
    /\ args.column.form \in {"array", "series"}
    /\ ~VectorMismatch

\* the mode the same values give when they are a column of the table
CategoricalByName == args.categorical \/ args.column.dtype \in {"obj", "cat"}

\* C11: a column given as an array or Series of the table's length is joined by
\* position: row i is plotted with the i-th element of the vector, whatever the
\* index labels of a Series are, and the mode is the one the same values give
\* when they are stored in the table and the column is given by name.
C11_VectorJoinedByPosition ==
    (PastColumn /\ VectorGiven) =>
        /\ column = "__plottable_column"
        /\ gdf.data["__plottable_column"] = args.column.vals
        /\ pc = "plot" => (categorical <=> CategoricalByName)

\* a category ordering came with a column by name
CategoriesGiven ==
    /\ args.categories # <<>>
    /\ args.column.form = "name"
    /\ HasColumn(args.df, args.column.name)

\* C12: an explicit category ordering together with a column of declared
\* categorical type raises the conflicting-category-specification error and
\* leaves the map without a new layer.
C12_ConflictingCategoriesRaise ==
    (pc \in {"plot", "finish", "done"} /\ CategoriesGiven
        /\ is_categorical_dtype(args.df, args.column.name)) =>
        /\ pc = "done"
        /\ err = "categories"
        /\ m.layers = LayersAtStart

\* C13: with a caller-supplied ordered list of categories the category set is
\* that list in the caller's order, and a row whose value is the j-th entry gets
\* the palette color at index j (for a color list, its j-th color, cyclically).
C13_CallerOrderIsCategoryOrder ==
    (Colored /\ CategoriesGiven /\ ~is_categorical_dtype(args.df, args.column.name)
        /\ NotNa(Plotted) \subseteq Range(args.categories)) =>
        /\ cat.categories = args.categories
        /\ \A r \in DOMAIN Plotted : \A j \in DOMAIN args.categories :
               (Plotted[r] = args.categories[j] /\ args.cmap.kind = "list"
                   /\ args.cmap.list # <<>>) =>
                   color.list[r] = Cyclic(args.cmap.list, j - 1)

\* the call drew its layer
Drawn == pc \in {"finish", "done"} /\ err = "none"

\* C14: in every mode, for each key of the caller's style_kwds, every row's
\* final style record carries the caller's value for that key, also for the
\* key the computed color is written to.
C14_StyleOverrideWins ==
    Drawn =>
        \A i \in DOMAIN LastLayer.styles : \A key \in DOMAIN args.style_kwds :
            /\ key \in DOMAIN LastLayer.styles[i]
            /\ LastLayer.styles[i][key] = args.style_kwds[key]

\* C15: a call with a marker_type string outside {marker, circle, circle_marker}
\* does not complete, in whatever mode it runs (when nothing else is wrong with
\* it the error is the unsupported-marker-type one); a string of the set or a
\* ready-made marker object never raises that error.
C15_UnsupportedMarkerRaises ==
    pc = "done" =>
        /\ BadMarker(args.marker_type) => err # "none"
        /\ ~BadMarker(args.marker_type) => err # "marker"

\* C16: at every point of a call and after it, successful or failing, the
\* caller's table is the one that was passed: same attributes, values and
\* coordinate system; the reprojection and the synthetic attributes are on the
\* working copy only.
C16_CallerTableUnchanged ==
    /\ df = args.df
    /\ df.crs = args.df.crs
    /\ \A c \in {"__plottable_column", "__folium_key", "__folium_color"} : ~HasColumn(df, c)

C16_Witness ==
    /\ pc = "done"
    /\ err = "none"
    /\ args.df.crs = "27700"
    /\ gdf.crs = "4326"
    /\ gdf.data.geometry # df.data.geometry
    /\ HasColumn(gdf, "__folium_key")
    /\ df = [BaseTable EXCEPT !.crs = "27700"]

\* C17: no step of a call changes the classification options the caller
\* passed, so a later call that reuses them classifies with its own k.
C17_OptionsUnchanged == [][cdict' = cdict]_vars

\* the map the call was given, or the fresh one view() made for it
MapAtStart ==
    IF args.useMap THEN ExistingMap
    ELSE IF args.df.crs = "none" THEN NewMap("none", "Simple")
    ELSE NewMap("OpenStreetMap", "EPSG3857")

\* C18: when view raises, no partial result exists: the map is exactly as it
\* was before the call, with no layer, legend or fit of the bounds applied.
C18_RaiseLeavesMapUntouched ==
    (pc = "done" /\ err # "none") => m = MapAtStart

C18_Witness ==
    /\ pc = "done"
    /\ err = "marker"
    /\ args.useMap
    /\ HasColumn(gdf, "__folium_color")
    /\ m = ExistingMap

\* the element the documented rule gives for what was asked, on the caller's table
Resolved(asked, built) ==
    LET attrs == NonGeometry(args.df)
    IN  /\ (asked.kind = "bool" /\ ~asked.b) => ~built.some
        /\ (asked.kind = "bool" /\ asked.b) => (built.some /\ built.fields = attrs)
        /\ (asked.kind = "int" /\ asked.n >= 1) =>
              /\ built.some
              /\ Len(built.fields) = (IF asked.n < Len(attrs) THEN asked.n ELSE Len(attrs))
              /\ \A i \in DOMAIN built.fields : built.fields[i] = attrs[i]
        /\ (asked.kind \in {"str", "list"} /\ Range(asked.fields) \cap Internal = {}) =>
              (built.some /\ built.fields = asked.fields)

\* C19: on a drawn layer the tooltip and the popup are each resolved from their
\* own argument by the same rule: False gives no element, True all non-geometry
\* attributes in column order, an integer N >= 1 the first N of them, a string
\* that one field, a list its fields in the given order.
C19_TooltipPopupRule ==
    (Drawn /\ args.df.frame) =>
        /\ Resolved(args.tooltip, LastLayer.tooltip)
        /\ Resolved(args.popup, LastLayer.popup)

C19_Witness ==
    /\ Drawn
    /\ pc = "done"
    /\ args.tooltip = TipInt(2)
    /\ args.popup = TipBool(TRUE)
    /\ LastLayer.tooltip.fields = <<"pop", "name">>
    /\ LastLayer.popup.fields = <<"pop", "name", "kind", "colors">>
    /\ LastLayer.type = "Choropleth"

\* the palette color at 0-based index i for N categories: a color list is read
\* cyclically, a named palette (tab20 when none is given) is sampled at i
PaletteAt(i, N) ==
    IF args.cmap.kind = "list" /\ args.cmap.list # <<>> THEN Cyclic(args.cmap.list, i)
    ELSE Sampled(IF args.cmap.kind = "str" /\ args.cmap.name # "" THEN args.cmap.name
                 ELSE "tab20", N, i)

\* category j has the palette color at index j, and so has every row of it
ColoredByPosition ==
    /\ Len(legend_colors) = Len(cat.categories)
    /\ \A j \in DOMAIN cat.categories :
           legend_colors[j] = PaletteAt(j - 1, Len(cat.categories))
    /\ \A r \in DOMAIN Plotted :
           ~isna(Plotted[r]) =>
               \E j \in DOMAIN cat.categories :
                   cat.categories[j] = Plotted[r] /\ color.list[r] = legend_colors[j]

\* C20 as claimed: without a caller-supplied category list the category set is
\* the distinct non-missing values in the order in which they are first seen in
\* row order, and the category at position j gets the palette color at index j.
C20_CategoriesInFirstSeenOrder ==
    (Colored /\ args.categories = <<>>) =>
        (cat.categories = FirstSeen(Plotted) /\ ColoredByPosition)

\* C20 amended: without a caller-supplied category list the category set is the
\* distinct non-missing values in sorted order (for a column of declared
\* categorical type: its declared categories in their declared order), and the
\* category at position j gets the palette color at index j.
C20_CategoriesInSortedOrder ==
    (Colored /\ args.categories = <<>>) =>
        /\ IF DeclaredCategorical
           THEN cat.categories = args.df.cats
           ELSE Range(cat.categories) = NotNa(Plotted) /\ StrictlyIncreasing(cat.categories)
        /\ ColoredByPosition

C20_Witness ==
    /\ Colored
    /\ pc = "done"
    /\ args.categories = <<>>
    /\ Plotted = <<2, 1, 1>>
    /\ cat.categories = <<1, 2>>
    /\ args.cmap = CmapList(<<A, B>>)
    /\ color.list = <<B, A, A>>

\* C21: in choropleth mode with a named scheme the values handed to the
\* classifier contain no missing value: rows with a missing value are left out
\* of the bin-edge computation.
C21_ClassifierGetsNoMissing ==
    (pc \in {"finish", "done"} /\ HasColumn(gdf, "__folium_key") /\ args.scheme # "none") =>
        /\ \A i \in DOMAIN classified : ~isna(classified[i])
        /\ Range(classified) = NotNa(Plotted)

\* C22: a tooltip or popup of False, None or 0 behaves the same in every mode:
\* the call does not fail on it (no AttributeError from adding a missing
\* element) and the layer drawn has no tooltip, respectively popup, element.
C22_OffMeansNoElement ==
    pc = "done" =>
        /\ (IsOff(args.tooltip) \/ IsOff(args.popup)) => err # "AttributeError"
        /\ (err = "none" /\ IsOff(args.tooltip)) => ~LastLayer.tooltip.some
        /\ (err = "none" /\ IsOff(args.popup)) => ~LastLayer.popup.some

=============================================================================
